---- MODULE Spec2Model ----
(***************************************************************************)
(* Model of the NixOS integration-test driver                              *)
(* (nixos/lib/test-driver/test-driver.py): the retry utility, the monitor  *)
(* and shell channel framing of the Machine, the Logger's XML stream, the  *)
(* Machine lifecycle flags and the at-exit clean-up of the driver.         *)
(***************************************************************************)
EXTENDS Integers, Sequences, FiniteSets, TLC

VARIABLES
  \* retry(fn)
  retry_pc,        \* "loop" | "returned" | "raised"
  retry_n,         \* iterations of `for _ in range(900)` completed
  fn_calls,        \* invocations of fn so far
  fn_trues,        \* invocations of fn that returned True
  fn_last_calls,   \* invocations of fn that received last=True
  \* Machine.wait_for_monitor_prompt
  mon_pc,          \* "idle" | "wait" | "returned"
  mon_stream,      \* bytes QEMU has written to the monitor socket, not yet received
  mon_read,        \* every byte received since wait_for_monitor_prompt was called
  mon_answer,      \* the value wait_for_monitor_prompt returned
  mon_closed,      \* QEMU has exited or closed its end of the monitor socket
  mon_got_eof,     \* recv has returned b"" since wait_for_monitor_prompt was called
  \* Machine.execute
  exec_pc,         \* "idle" | "recv" | "returned"
  shell_stream,    \* bytes the guest has written to the shell socket, not yet received
  exec_cmd,        \* what the command in flight really printed and its exit status
  exec_output,     \* the local variable `output`
  exec_ret,        \* the pair execute returned
  \* Logger.queue between the serial-drain workers and the main thread
  q_count,         \* records held by the Queue(1000)
  worker_pc,       \* per worker: "reading" | "blocked" (inside Queue.put)
  \* Logger: log and nested on the main thread, step by step, against the
  \* workers' enqueue
  lg_pc,           \* "idle" | "log_drain" | "enter_drain" | "exit_drain" |
                   \* "exit_log_drain": where the main thread is in the Logger
  lg_queue,        \* Logger.queue: the pending records, oldest first
  lg_xml,          \* the elements written to the log file, in order
  lg_next,         \* enqueue calls completed so far (records are numbered)
  lg_began,        \* lg_next when the call under way began
  lg_depth,        \* nested scopes open
  lg_calls,        \* log and nested calls made
  \* Logger.sanitise inside Logger.drain_log_queue
  san_queue,       \* Logger.queue: the msg of each pending record
  san_lines,       \* per serial line written: the record's msg and the
                   \* characters handed to xml.characters
  \* Machine.send_key
  sk_key,          \* the argument of the last call of send_key
  sk_sent,         \* the messages that call sent on the monitor socket
  sk_log,          \* the lines that call logged
  sk_calls,        \* calls of send_key made
  \* Machine.succeed / Machine.fail
  sf_op,           \* "none" | "succeed" | "fail": the method called
  sf_pc,           \* "idle" | "loop" | "returned" | "raised"
  sf_commands,     \* *commands, each by what execute returns for it
  sf_executed,     \* the indices of the commands handed to execute, in order
  sf_output,       \* the local variable `output` of succeed
  sf_result,       \* what the method returned
  sf_xml,          \* the elements the method wrote to the log
  \* __main__: the environment, the VDE switches, the subprocess of start
  main_pc,         \* "launch" | "create_vlan" | "run_tests" | "hung" | "exited"
  environ,         \* os.environ: variable name |-> value
  vlan_ids,        \* the list vlan_nrs of line 789
  switches,        \* the vde_switch processes spawned, in order
  vde_sockets,     \* the list vde_sockets, once line 790 has bound it
  allow_reboot,    \* Machine.allow_reboot, per machine
  spawn_env,       \* machine |-> the env its subprocess was given by Popen
  machine_kills,   \* kill() calls on each machine's subprocess
  \* the driver
  pc,              \* "run_tests" | "script" | "hung" | "atexit" | "exited"
  xml,             \* the elements written to the log file, in order
  queue,           \* Logger.queue: the machine of each pending serial record
  log_closed,      \* Logger.logfile_handle is closed
  stack,           \* the scopes the script is inside: "nested" | "subtest"
  nr_tests,
  nr_succeeded,
  exit_code,       \* exit status of the driver, -1 while it runs
  booted,          \* Machine.booted, per machine
  connected,       \* Machine.connected
  pid,             \* Machine.pid
  process,         \* Machine.process: the subprocess last spawned by start
  procs,           \* every subprocess spawned, by process id
  socks,           \* the open sockets each Machine holds
  vde_kills,       \* signals sent to each VDE switch
  signals,         \* kills and the Logger's close, in the order they happened
  cleanups,        \* one record per invocation of clean_up
  nops,            \* script operations taken
  nserial,         \* serial lines enqueued
  workers,         \* serial-drain threads started, per machine
  banner_reads,    \* reads of the shell banner by connect, per machine
  final_syncs,     \* the machines run_tests called execute("sync") on
  summary,         \* <<nr_succeeded, nr_tests>> of the summary line logged
  worker_ended,    \* the subprocesses whose serial-drain worker has read
                   \* the end of the pipe and returned
  sent,            \* the messages shutdown and crash wrote to the sockets
                   \* of the machines: <<machine, socket, text>>, in order
  idle_call        \* "start" | "connect" when the statement the script ran
                   \* last was that call on a machine already booted
                   \* (connected), else "none"

retryVars == <<retry_pc, retry_n, fn_calls, fn_trues, fn_last_calls>>
monVars == <<mon_pc, mon_stream, mon_read, mon_answer, mon_closed, mon_got_eof>>
shellVars == <<exec_pc, shell_stream, exec_cmd, exec_output, exec_ret>>

driverVars ==
  <<pc, xml, queue, log_closed, stack, nr_tests, nr_succeeded, exit_code,
    booted, connected, pid, process, procs, socks, vde_kills, signals,
    cleanups, nops, nserial, workers, banner_reads, final_syncs, summary,
    worker_ended, sent, idle_call>>

queueVars == <<q_count, worker_pc>>
succeedVars ==
  <<sf_op, sf_pc, sf_commands, sf_executed, sf_output, sf_result, sf_xml>>

mainVars ==
  <<main_pc, environ, vlan_ids, switches, vde_sockets, allow_reboot,
    spawn_env, machine_kills>>

loggerVars ==
  <<lg_pc, lg_queue, lg_xml, lg_next, lg_began, lg_depth, lg_calls>>

sanVars == <<san_queue, san_lines>>

keyVars == <<sk_key, sk_sent, sk_log, sk_calls>>

vars ==
  <<retryVars, monVars, shellVars, queueVars, loggerVars, sanVars, keyVars,
    succeedVars, mainVars, driverVars>>

\* What the operations of one component leave alone.
notRetry ==
  <<keyVars, sanVars, monVars, shellVars, queueVars, loggerVars, succeedVars, mainVars,
    driverVars>>
notMonitor ==
  <<keyVars, sanVars, retryVars, shellVars, queueVars, loggerVars, succeedVars, mainVars,
    driverVars>>
notShell ==
  <<keyVars, sanVars, retryVars, monVars, queueVars, loggerVars, succeedVars, mainVars,
    driverVars>>
notQueue ==
  <<keyVars, sanVars, retryVars, monVars, shellVars, loggerVars, succeedVars, mainVars,
    driverVars>>
notLogger ==
  <<keyVars, sanVars, retryVars, monVars, shellVars, queueVars, succeedVars, mainVars,
    driverVars>>
notSanitise ==
  <<keyVars, retryVars, monVars, shellVars, queueVars, loggerVars, succeedVars,
    mainVars, driverVars>>
notKeys ==
  <<sanVars, retryVars, monVars, shellVars, queueVars, loggerVars,
    succeedVars, mainVars, driverVars>>
notSucceed ==
  <<keyVars, sanVars, retryVars, monVars, shellVars, queueVars, loggerVars, mainVars,
    driverVars>>
notMain ==
  <<keyVars, sanVars, retryVars, monVars, shellVars, queueVars, loggerVars, succeedVars,
    driverVars>>
notDriver ==
  <<keyVars, sanVars, retryVars, monVars, shellVars, queueVars, loggerVars, succeedVars,
    mainVars>>

(***************************************************************************)
(* Text: a string is a sequence of one-character strings.                  *)
(***************************************************************************)

\* The sequences over S of length at most n.
SeqsUpTo(S, n) == UNION {[1..k -> S] : k \in 0..n}

\* str.endswith
EndsWith(s, suffix) ==
  /\ Len(s) >= Len(suffix)
  /\ SubSeq(s, Len(s) - Len(suffix) + 1, Len(s)) = suffix

Min(a, b) == IF a < b THEN a ELSE b

Drop(s, k) == SubSeq(s, k + 1, Len(s))

(***************************************************************************)
(* retry (test-driver.py:119-130)                                          *)
(***************************************************************************)

\* range(900) of the for loop.
RetryRange_off == 900 + 1
RetryRange == 900

InitRetry ==
  /\ retry_pc = "loop"
  /\ retry_n = 0
  /\ fn_calls = 0
  /\ fn_trues = 0
  /\ fn_last_calls = 0

\* A variant of the loop body that keeps looping after fn returned True.
retry_attempt_noreturn(r) ==
  /\ retry_pc = "loop"
  /\ retry_n < RetryRange
  /\ fn_calls' = fn_calls + 1
  /\ fn_trues' = fn_trues + (IF r THEN 1 ELSE 0)
  /\ retry_n' = retry_n + 1
  /\ UNCHANGED <<retry_pc, fn_last_calls, notRetry>>

\* One iteration of the loop: `if fn(False): return`, else `time.sleep(1)`.
\* r is what fn returns.
retry_attempt(r) ==
  /\ retry_pc = "loop"
  /\ retry_n < RetryRange
  /\ fn_calls' = fn_calls + 1
  /\ fn_trues' = fn_trues + (IF r THEN 1 ELSE 0)
  /\ IF r
       THEN retry_pc' = "returned" /\ retry_n' = retry_n
       ELSE retry_pc' = "loop" /\ retry_n' = retry_n + 1
  /\ UNCHANGED <<fn_last_calls, notRetry>>

\* After the loop: `if not fn(True): raise Exception("action timed out")`.
retry_final(r) ==
  /\ retry_pc = "loop"
  /\ retry_n = RetryRange
  /\ fn_calls' = fn_calls + 1
  /\ fn_last_calls' = fn_last_calls + 1
  /\ fn_trues' = fn_trues + (IF r THEN 1 ELSE 0)
  /\ retry_pc' = IF r THEN "returned" ELSE "raised"
  /\ UNCHANGED <<retry_n, notRetry>>

NextRetry ==
  \/ \E r \in BOOLEAN : retry_attempt(r)
  \/ \E r \in BOOLEAN : retry_final(r)

(***************************************************************************)
(* Monitor channel: wait_for_monitor_prompt (test-driver.py:291-296)       *)
(***************************************************************************)

\* The HMP prompt "(qemu) " of line 295.
Prompt == <<"(", "q", "e", "m", "u", ")", " ">>

\* The size handed to monitor.recv.
MonitorRecvSize == 1024

\* Longest generated response text ahead of the prompt.
MaxMonBody == 3

MonChars == {"r", "\n"}

\* What QEMU prints ahead of the next prompt: short texts, and "ready\n".
MonBodies ==
  SeqsUpTo(MonChars, MaxMonBody) \cup {<<"r", "e", "a", "d", "y", "\n">>}

InitMonitor ==
  /\ mon_pc = "idle"
  /\ mon_stream = <<>>
  /\ mon_read = <<>>
  /\ mon_answer = <<>>
  /\ mon_closed = FALSE
  /\ mon_got_eof = FALSE

\* wait_for_monitor_prompt is entered; QEMU, when it is still there, answers
\* with body and a prompt.
wait_for_monitor_prompt(body) ==
  /\ mon_pc \in {"idle", "returned"}
  /\ mon_pc' = "wait"
  /\ mon_stream' = IF mon_closed THEN mon_stream
                    ELSE mon_stream \o body \o Prompt
  /\ mon_read' = <<>>
  /\ mon_answer' = <<>>
  /\ mon_got_eof' = FALSE
  /\ UNCHANGED <<mon_closed, notMonitor>>

\* QEMU exits or closes the monitor socket (after `quit`, say), having
\* written only the first k bytes of what it had to say.
monitor_close ==
  /\ ~mon_closed
  /\ mon_closed' = TRUE
  /\ \E k \in 0..Len(mon_stream) : mon_stream' = SubSeq(mon_stream, 1, k)
  /\ UNCHANGED <<mon_pc, mon_read, mon_answer, mon_got_eof, notMonitor>>

\* One turn of the loop: `answer = self.monitor.recv(1024).decode()`, then
\* `if answer.endswith("(qemu) "): return answer`. recv hands over the first
\* k pending bytes, for some k from 1 to 1024; with nothing pending it blocks
\* while the peer is there and returns b"" (k = 0) once the peer has closed.
monitor_recv ==
  /\ mon_pc = "wait"
  /\ \E k \in 0..Min(MonitorRecvSize, Len(mon_stream)) :
       LET answer == SubSeq(mon_stream, 1, k) IN
         /\ (k = 0) <=> (mon_stream = <<>> /\ mon_closed)
         /\ mon_stream' = Drop(mon_stream, k)
         /\ mon_read' = mon_read \o answer
         /\ mon_got_eof' = (mon_got_eof \/ k = 0)
         /\ IF EndsWith(answer, Prompt)
              THEN mon_pc' = "returned" /\ mon_answer' = answer
              ELSE mon_pc' = "wait" /\ mon_answer' = mon_answer
  /\ UNCHANGED <<mon_closed, notMonitor>>

NextMonitor ==
  \/ \E body \in MonBodies : wait_for_monitor_prompt(body)
  \/ monitor_recv
  \/ monitor_close

(***************************************************************************)
(* Shell channel: Machine.execute (test-driver.py:371-387)                 *)
(***************************************************************************)

\* The size handed to shell.recv.
ShellRecvSize == 4096

\* The marker '|!EOF' that out_command makes the guest echo (line 374).
Sentinel == <<"|", "!", "E", "O", "F">>

DigitChars == <<"0", "1", "2", "3", "4", "5", "6", "7", "8", "9">>

IsDigit(c) == \E d \in 1..10 : DigitChars[d] = c

\* The characters the pattern's \s matches.
IsSpace(c) == c \in {" ", "\t", "\n", "\r"}

\* Decimal text of a natural number, as the guest shell expands $?.
RECURSIVE ToDigits(_)
ToDigits(n) ==
  IF n < 10 THEN <<DigitChars[n + 1]>>
  ELSE Append(ToDigits(n \div 10), DigitChars[(n % 10) + 1])

\* int() of a sequence of digit characters.
RECURSIVE ToInt(_)
ToInt(ds) ==
  IF ds = <<>> THEN 0
  ELSE 10 * ToInt(SubSeq(ds, 1, Len(ds) - 1))
         + ((CHOOSE d \in 1..10 : DigitChars[d] = ds[Len(ds)]) - 1)

\* Longest generated command output.
MaxOut == 2

OutChars == {"h", "\n", "|"}

\* What a command prints: short texts, and "hello\n".
Outputs ==
  SeqsUpTo(OutChars, MaxOut) \cup {<<"h", "e", "l", "l", "o", "\n">>}

\* The exit statuses commands end with.
Statuses == {0, 2, 12}

\* A byte of the shell stream: the character, and whether a command before
\* the one in flight produced it.
Bytes(text, stale) == [i \in 1..Len(text) |-> [c |-> text[i], stale |-> stale]]

Chars(bytes) == [i \in 1..Len(bytes) |-> bytes[i].c]

\* What the guest writes for "( cmd ); echo '|!EOF' $?\n" when cmd prints
\* out and exits with status.
GuestReply(out, status) ==
  out \o Sentinel \o <<" ">> \o ToDigits(status) \o <<"\n">>

\* r"(.*)\|\!EOF\s+(\d+)" tried at text position i + 1 after a group 1 of
\* length i: the end of the whitespace run when the rest matches, else 0.
\* `.` does not match a newline.
SpaceEnd(text, i) ==
  LET n == Len(text)
      ok == /\ \A j \in 1..i : text[j] # "\n"
            /\ i + 5 <= n
            /\ \A j \in 1..5 : text[i + j] = Sentinel[j]
      ends == {e \in (i + 6)..(n - 1) :
                 /\ \A j \in (i + 6)..e : IsSpace(text[j])
                 /\ IsDigit(text[e + 1])}
  IN IF ok /\ ends # {} THEN CHOOSE e \in ends : TRUE ELSE 0

\* status_code_pattern.match(chunk): [found, m1, m2], where m1 is the length
\* of group 1 (greedy: the longest that lets the rest match) and group 2 is
\* chunk[d1..d2] (greedy: the whole run of digits).
PatternMatch(text) ==
  LET n == Len(text)
      starts == {i \in 0..n : SpaceEnd(text, i) # 0}
  IN IF starts = {} THEN [found |-> FALSE, m1 |-> 0, d1 |-> 0, d2 |-> 0]
     ELSE LET i == CHOOSE x \in starts : \A y \in starts : y <= x
              d == SpaceEnd(text, i) + 1
              e == CHOOSE x \in d..n :
                     /\ \A j \in d..x : IsDigit(text[j])
                     /\ (x = n \/ ~IsDigit(text[x + 1]))
          IN [found |-> TRUE, m1 |-> i, d1 |-> d, d2 |-> e]

NoReturn == [status |-> -1, output |-> <<>>, digits |-> <<>>]

InitShell ==
  /\ exec_pc = "idle"
  /\ shell_stream = <<>>
  /\ exec_cmd = [out |-> <<>>, status |-> 0]
  /\ exec_output = <<>>
  /\ exec_ret = NoReturn

\* execute up to the loop, on a connected machine (connect returns at once):
\* the wrapped command is sent, and the guest runs it and writes its reply.
\* Bytes still unread from earlier commands stay ahead of it in the stream.
execute_send(out, status) ==
  /\ exec_pc \in {"idle", "returned"}
  /\ exec_pc' = "recv"
  /\ exec_cmd' = [out |-> out, status |-> status]
  /\ shell_stream' = Bytes(Chars(shell_stream), TRUE)
                       \o Bytes(GuestReply(out, status), FALSE)
  /\ exec_output' = <<>>
  /\ exec_ret' = NoReturn
  /\ UNCHANGED notShell

\* One turn of the loop: `chunk = self.shell.recv(4096).decode()`, the match
\* against the chunk, and either the return or `output += chunk`. recv hands
\* over the first k pending bytes, for some k from 1 to 4096.
execute_recv ==
  /\ exec_pc = "recv"
  /\ \E k \in 1..Min(ShellRecvSize, Len(shell_stream)) :
       LET chunk == SubSeq(shell_stream, 1, k)
           m == PatternMatch(Chars(chunk))
       IN /\ shell_stream' = Drop(shell_stream, k)
          /\ IF m.found
               THEN /\ exec_pc' = "returned"
                    /\ exec_output' = exec_output \o SubSeq(chunk, 1, m.m1)
                    /\ exec_ret' =
                         [status |-> ToInt(Chars(SubSeq(chunk, m.d1, m.d2))),
                          output |-> exec_output \o SubSeq(chunk, 1, m.m1),
                          digits |-> SubSeq(chunk, m.d1, m.d2)]
               ELSE /\ exec_pc' = "recv"
                    /\ exec_output' = exec_output \o chunk
                    /\ exec_ret' = exec_ret
  /\ UNCHANGED <<exec_cmd, notShell>>

NextShell ==
  \/ \E out \in Outputs, status \in Statuses : execute_send(out, status)
  \/ execute_recv

(***************************************************************************)
(* Logger.queue: enqueue by the workers, drain by the main thread          *)
(* (test-driver.py:138, 166-176, 629-635)                                  *)
(***************************************************************************)

\* The maxsize of `Queue(1000)`.
QueueSize == 1000

\* The serial-drain workers, one per machine that was started.
Workers == {"a", "b"}

InitQueue ==
  /\ q_count = 0
  /\ worker_pc = [t \in Workers |-> "reading"]

\* Worker t read a line from its machine and calls Logger.enqueue, which is
\* `self.queue.put(message)` with block=True and no timeout: with room in
\* the queue the record is added and the call returns; with the queue full
\* the worker waits inside put.
queue_put(t) ==
  /\ worker_pc[t] = "reading"
  /\ IF q_count < QueueSize
       THEN q_count' = q_count + 1 /\ worker_pc' = worker_pc
       ELSE q_count' = q_count /\ worker_pc' = [worker_pc EXCEPT ![t] = "blocked"]
  /\ UNCHANGED notQueue

\* A worker waiting inside put finds room: the record is added, enqueue
\* returns.
queue_put_resume(t) ==
  /\ worker_pc[t] = "blocked"
  /\ q_count < QueueSize
  /\ q_count' = q_count + 1
  /\ worker_pc' = [worker_pc EXCEPT ![t] = "reading"]
  /\ UNCHANGED notQueue

\* One turn of the loop of drain_log_queue on the main thread: get_nowait
\* takes a record off the queue.
queue_get_nowait ==
  /\ q_count > 0
  /\ q_count' = q_count - 1
  /\ UNCHANGED <<worker_pc, notQueue>>

NextQueue ==
  \/ \E t \in Workers : queue_put(t)
  \/ \E t \in Workers : queue_put_resume(t)
  \/ queue_get_nowait

(***************************************************************************)
(* Logger.log and Logger.nested step by step, interleaved with enqueue     *)
(* (test-driver.py:156-194)                                                *)
(***************************************************************************)

\* Serial records the workers enqueue.
MaxRecords == 2

\* Calls of log and nested the main thread makes.
MaxCalls == 3

\* An element written by the main thread for itself; began is the number of
\* enqueue calls that had completed when the call that writes it began.
Element(tag, began) == [tag |-> tag, id |-> 0, machine |-> "", began |-> began]

\* The <line type="serial" machine=...> element of a queued record.
SerialLine(item) ==
  [tag |-> "serial", id |-> item.id, machine |-> item.machine, began |-> 0]

InitLogger ==
  /\ lg_pc = "idle"
  /\ lg_queue = <<>>
  /\ lg_xml = <<>>
  /\ lg_next = 0
  /\ lg_began = 0
  /\ lg_depth = 0
  /\ lg_calls = 0

\* The worker of machine m calls Logger.enqueue, at any point of what the
\* main thread is doing; the Queue takes the record atomically.
worker_enqueue(m) ==
  /\ lg_next < MaxRecords
  /\ lg_next' = lg_next + 1
  /\ lg_queue' = Append(lg_queue, [machine |-> m, id |-> lg_next + 1])
  /\ UNCHANGED <<lg_pc, lg_xml, lg_began, lg_depth, lg_calls, notLogger>>

\* A variant of the entry of Logger.log that writes the message first and
\* drains the queue after it.
log_begin_line_first ==
  /\ lg_pc = "idle"
  /\ lg_calls < MaxCalls
  /\ lg_calls' = lg_calls + 1
  /\ lg_began' = lg_next
  /\ lg_xml' = Append(lg_xml, Element("line", lg_next))
  /\ lg_pc' = "enter_drain"
  /\ UNCHANGED <<lg_queue, lg_next, lg_depth, notLogger>>

\* The main thread calls Logger.log: the drain comes first.
log_begin ==
  /\ lg_pc = "idle"
  /\ lg_calls < MaxCalls
  /\ lg_calls' = lg_calls + 1
  /\ lg_began' = lg_next
  /\ lg_pc' = "log_drain"
  /\ UNCHANGED <<lg_queue, lg_xml, lg_next, lg_depth, notLogger>>

\* The main thread enters Logger.nested: <nest>, the head, then the drain.
nested_begin ==
  /\ lg_pc = "idle"
  /\ lg_calls < MaxCalls
  /\ lg_calls' = lg_calls + 1
  /\ lg_began' = lg_next
  /\ lg_xml' = lg_xml \o <<Element("nest", lg_next), Element("head", lg_next)>>
  /\ lg_depth' = lg_depth + 1
  /\ lg_pc' = "enter_drain"
  /\ UNCHANGED <<lg_queue, lg_next, notLogger>>

\* The body of the innermost scope is over: Logger.nested goes on after
\* its yield, with a drain.
nested_end_begin ==
  /\ lg_pc = "idle"
  /\ lg_depth > 0
  /\ lg_calls < MaxCalls
  /\ lg_calls' = lg_calls + 1
  /\ lg_began' = lg_next
  /\ lg_pc' = "exit_drain"
  /\ UNCHANGED <<lg_queue, lg_xml, lg_next, lg_depth, notLogger>>

\* One turn of the loop of drain_log_queue: get_nowait hands over the
\* oldest record, which is written as a serial line.
drain_get_nowait ==
  /\ lg_pc # "idle"
  /\ lg_queue # <<>>
  /\ lg_xml' = Append(lg_xml, SerialLine(Head(lg_queue)))
  /\ lg_queue' = Tail(lg_queue)
  /\ UNCHANGED <<lg_pc, lg_next, lg_began, lg_depth, lg_calls, notLogger>>

\* get_nowait raises Empty: drain_log_queue returns, and the caller goes on
\* up to its next drain or to its end. log writes its line; the entry of
\* nested yields; the exit of nested calls log for the trailer, and that
\* log, its drain done, writes the trailer and </nest>.
drain_empty ==
  /\ lg_pc # "idle"
  /\ lg_queue = <<>>
  /\ CASE lg_pc = "log_drain" ->
            /\ lg_xml' = Append(lg_xml, Element("line", lg_began))
            /\ lg_pc' = "idle"
            /\ UNCHANGED <<lg_began, lg_depth>>
       [] lg_pc = "enter_drain" ->
            /\ lg_pc' = "idle"
            /\ UNCHANGED <<lg_xml, lg_began, lg_depth>>
       [] lg_pc = "exit_drain" ->
            /\ lg_pc' = "exit_log_drain"
            /\ lg_began' = lg_next
            /\ UNCHANGED <<lg_xml, lg_depth>>
       [] lg_pc = "exit_log_drain" ->
            /\ lg_xml' = lg_xml \o <<Element("line", lg_began),
                                     Element("/nest", lg_began)>>
            /\ lg_depth' = lg_depth - 1
            /\ lg_pc' = "idle"
            /\ UNCHANGED lg_began
  /\ UNCHANGED <<lg_queue, lg_next, lg_calls, notLogger>>

NextLogger ==
  \/ \E m \in Workers : worker_enqueue(m)
  \/ log_begin
  \/ nested_begin
  \/ nested_end_begin
  \/ drain_get_nowait
  \/ drain_empty

(***************************************************************************)
(* Logger.sanitise and the serial lines of drain_log_queue                 *)
(* (test-driver.py:148-149, 169-176)                                       *)
(***************************************************************************)

\* Code points per serial message.
MaxMsgLen == 3

\* Serial records enqueued.
MaxMsgs == 1

\* The code points the guests print here: two letters, a tab, and the
\* zero-width space U+200B.
MsgChars == {"a", "b", "\t", "U+200B"}

Messages == SeqsUpTo(MsgChars, MaxMsgLen)

\* unicodedata.category, as the pair of its two letters.
Category(ch) ==
  CASE ch = "a" -> <<"L", "l">>
    [] ch = "b" -> <<"L", "l">>
    [] ch = "\t" -> <<"C", "c">>
    [] ch = "U+200B" -> <<"C", "f">>

\* A variant of Logger.sanitise that drops the control characters (Cc) only.
RECURSIVE sanitise_cc_only(_)
sanitise_cc_only(message) ==
  IF message = <<>> THEN <<>>
  ELSE IF Category(Head(message)) # <<"C", "c">>
    THEN <<Head(message)>> \o sanitise_cc_only(Tail(message))
    ELSE sanitise_cc_only(Tail(message))

\* Logger.sanitise.
RECURSIVE sanitise(_)
sanitise(message) ==
  IF message = <<>> THEN <<>>
  ELSE IF Category(Head(message))[1] # "C"
    THEN <<Head(message)>> \o sanitise(Tail(message))
    ELSE sanitise(Tail(message))

InitSanitise ==
  /\ san_queue = <<>>
  /\ san_lines = <<>>

\* A worker enqueues the record of one line the guest printed.
enqueue_msg(msg) ==
  /\ Len(san_queue) + Len(san_lines) < MaxMsgs
  /\ san_queue' = Append(san_queue, msg)
  /\ UNCHANGED <<san_lines, notSanitise>>

\* Logger.drain_log_queue: every pending record is written as a line whose
\* characters are sanitise(item["msg"]).
drain_msgs ==
  /\ san_queue # <<>>
  /\ san_lines' = san_lines \o
       [i \in 1..Len(san_queue) |->
          [msg |-> san_queue[i], text |-> sanitise(san_queue[i])]]
  /\ san_queue' = <<>>
  /\ UNCHANGED notSanitise

NextSanitise ==
  \/ \E msg \in Messages : enqueue_msg(msg)
  \/ drain_msgs

(***************************************************************************)
(* CHAR_TO_KEY and Machine.send_key (test-driver.py:21-82, 569-571)        *)
(***************************************************************************)

\* Calls of send_key made.
MaxSendKeys == 2

\* The key table: a one-character text |-> the sendkey token. "U+0060" is
\* the grave accent.
CHAR_TO_KEY ==
  (<<"A">> :> <<"s", "h", "i", "f", "t", "-", "a">>) @@
  (<<"N">> :> <<"s", "h", "i", "f", "t", "-", "n">>) @@
  (<<"-">> :> <<"0", "x", "0", "C">>) @@
  (<<"_">> :> <<"s", "h", "i", "f", "t", "-", "0", "x", "0", "C">>) @@
  (<<"B">> :> <<"s", "h", "i", "f", "t", "-", "b">>) @@
  (<<"O">> :> <<"s", "h", "i", "f", "t", "-", "o">>) @@
  (<<"=">> :> <<"0", "x", "0", "D">>) @@
  (<<"+">> :> <<"s", "h", "i", "f", "t", "-", "0", "x", "0", "D">>) @@
  (<<"C">> :> <<"s", "h", "i", "f", "t", "-", "c">>) @@
  (<<"P">> :> <<"s", "h", "i", "f", "t", "-", "p">>) @@
  (<<"[">> :> <<"0", "x", "1", "A">>) @@
  (<<"{">> :> <<"s", "h", "i", "f", "t", "-", "0", "x", "1", "A">>) @@
  (<<"D">> :> <<"s", "h", "i", "f", "t", "-", "d">>) @@
  (<<"Q">> :> <<"s", "h", "i", "f", "t", "-", "q">>) @@
  (<<"]">> :> <<"0", "x", "1", "B">>) @@
  (<<"}">> :> <<"s", "h", "i", "f", "t", "-", "0", "x", "1", "B">>) @@
  (<<"E">> :> <<"s", "h", "i", "f", "t", "-", "e">>) @@
  (<<"R">> :> <<"s", "h", "i", "f", "t", "-", "r">>) @@
  (<<";">> :> <<"0", "x", "2", "7">>) @@
  (<<":">> :> <<"s", "h", "i", "f", "t", "-", "0", "x", "2", "7">>) @@
  (<<"F">> :> <<"s", "h", "i", "f", "t", "-", "f">>) @@
  (<<"S">> :> <<"s", "h", "i", "f", "t", "-", "s">>) @@
  (<<"'">> :> <<"0", "x", "2", "8">>) @@
  (<<"\"">> :> <<"s", "h", "i", "f", "t", "-", "0", "x", "2", "8">>) @@
  (<<"G">> :> <<"s", "h", "i", "f", "t", "-", "g">>) @@
  (<<"T">> :> <<"s", "h", "i", "f", "t", "-", "t">>) @@
  (<<"U+0060">> :> <<"0", "x", "2", "9">>) @@
  (<<"~">> :> <<"s", "h", "i", "f", "t", "-", "0", "x", "2", "9">>) @@
  (<<"H">> :> <<"s", "h", "i", "f", "t", "-", "h">>) @@
  (<<"U">> :> <<"s", "h", "i", "f", "t", "-", "u">>) @@
  (<<"\\">> :> <<"0", "x", "2", "B">>) @@
  (<<"|">> :> <<"s", "h", "i", "f", "t", "-", "0", "x", "2", "B">>) @@
  (<<"I">> :> <<"s", "h", "i", "f", "t", "-", "i">>) @@
  (<<"V">> :> <<"s", "h", "i", "f", "t", "-", "v">>) @@
  (<<",">> :> <<"0", "x", "3", "3">>) @@
  (<<"<">> :> <<"s", "h", "i", "f", "t", "-", "0", "x", "3", "3">>) @@
  (<<"J">> :> <<"s", "h", "i", "f", "t", "-", "j">>) @@
  (<<"W">> :> <<"s", "h", "i", "f", "t", "-", "w">>) @@
  (<<".">> :> <<"0", "x", "3", "4">>) @@
  (<<">">> :> <<"s", "h", "i", "f", "t", "-", "0", "x", "3", "4">>) @@
  (<<"K">> :> <<"s", "h", "i", "f", "t", "-", "k">>) @@
  (<<"X">> :> <<"s", "h", "i", "f", "t", "-", "x">>) @@
  (<<"/">> :> <<"0", "x", "3", "5">>) @@
  (<<"?">> :> <<"s", "h", "i", "f", "t", "-", "0", "x", "3", "5">>) @@
  (<<"L">> :> <<"s", "h", "i", "f", "t", "-", "l">>) @@
  (<<"Y">> :> <<"s", "h", "i", "f", "t", "-", "y">>) @@
  (<<" ">> :> <<"s", "p", "c">>) @@
  (<<"M">> :> <<"s", "h", "i", "f", "t", "-", "m">>) @@
  (<<"Z">> :> <<"s", "h", "i", "f", "t", "-", "z">>) @@
  (<<"\n">> :> <<"r", "e", "t">>) @@
  (<<"!">> :> <<"s", "h", "i", "f", "t", "-", "0", "x", "0", "2">>) @@
  (<<"@">> :> <<"s", "h", "i", "f", "t", "-", "0", "x", "0", "3">>) @@
  (<<"#">> :> <<"s", "h", "i", "f", "t", "-", "0", "x", "0", "4">>) @@
  (<<"$">> :> <<"s", "h", "i", "f", "t", "-", "0", "x", "0", "5">>) @@
  (<<"%">> :> <<"s", "h", "i", "f", "t", "-", "0", "x", "0", "6">>) @@
  (<<"^">> :> <<"s", "h", "i", "f", "t", "-", "0", "x", "0", "7">>) @@
  (<<"&">> :> <<"s", "h", "i", "f", "t", "-", "0", "x", "0", "8">>) @@
  (<<"*">> :> <<"s", "h", "i", "f", "t", "-", "0", "x", "0", "9">>) @@
  (<<"(">> :> <<"s", "h", "i", "f", "t", "-", "0", "x", "0", "A">>) @@
  (<<")">> :> <<"s", "h", "i", "f", "t", "-", "0", "x", "0", "B">>)

LowerLetters ==
  <<"a", "b", "c", "d", "e", "f", "g", "h", "i", "j", "k", "l", "m",
    "n", "o", "p", "q", "r", "s", "t", "u", "v", "w", "x", "y", "z">>

Digits == <<"0", "1", "2", "3", "4", "5", "6", "7", "8", "9">>

\* The keys the scripts send: every character of the table, the digits and
\* the lowercase letters, and two key names of QEMU.
KeyArgs ==
  DOMAIN CHAR_TO_KEY
    \cup {<<Digits[i]>> : i \in 1..10}
    \cup {<<LowerLetters[i]>> : i \in 1..26}
    \cup {<<"c", "t", "r", "l", "-", "a", "l", "t", "-", "f", "1">>,
          <<"r", "e", "t">>}

\* dict.get(key, key)
GetOrSelf(dict, key) == IF key \in DOMAIN dict THEN dict[key] ELSE key

\* "sendkey {}".format(key)
SendKeyCommand(key) == <<"s", "e", "n", "d", "k", "e", "y", " ">> \o key

\* "sending monitor command: {}".format(command)
SendingLine(command) ==
  <<"s", "e", "n", "d", "i", "n", "g", " ", "m", "o", "n", "i", "t", "o",
    "r", " ", "c", "o", "m", "m", "a", "n", "d", ":", " ">> \o command

\* "{}\n".format(command)
MonitorMessage(command) == command \o <<"\n">>

InitKeys ==
  /\ sk_key = <<>>
  /\ sk_sent = <<>>
  /\ sk_log = <<>>
  /\ sk_calls = 0

\* A variant of send_key that does not look the key up.
send_key_verbatim(key) ==
  /\ sk_calls < MaxSendKeys
  /\ sk_calls' = sk_calls + 1
  /\ sk_key' = key
  /\ sk_log' = <<SendingLine(SendKeyCommand(key))>>
  /\ sk_sent' = <<MonitorMessage(SendKeyCommand(key))>>
  /\ UNCHANGED notKeys

\* Machine.send_key: the lookup, then send_monitor_command: the log line
\* and the message on the monitor socket. The wait for the prompt that
\* follows is wait_for_monitor_prompt above.
send_key(key) ==
  /\ sk_calls < MaxSendKeys
  /\ sk_calls' = sk_calls + 1
  /\ sk_key' = key
  /\ LET command == SendKeyCommand(GetOrSelf(CHAR_TO_KEY, key)) IN
       /\ sk_log' = <<SendingLine(command)>>
       /\ sk_sent' = <<MonitorMessage(command)>>
  /\ UNCHANGED notKeys

NextKeys == \E key \in KeyArgs : send_key(key)

(***************************************************************************)
(* Machine.succeed and Machine.fail (test-driver.py:389-411)               *)
(***************************************************************************)

\* Longest list of commands handed to succeed or fail.
MaxCommands == 3

\* What execute returns for a command: its exit status and its output.
CommandResults ==
  {[status |-> 0, out |-> <<"x">>],
   [status |-> 0, out |-> <<"y", "\n">>],
   [status |-> 2, out |-> <<"o", "o", "p", "s", "\n">>]}

CommandLists == SeqsUpTo(CommandResults, MaxCommands)

InitSucceed ==
  /\ sf_op = "none"
  /\ sf_pc = "idle"
  /\ sf_commands = <<>>
  /\ sf_executed = <<>>
  /\ sf_output = <<>>
  /\ sf_result = <<>>
  /\ sf_xml = <<>>

\* succeed(*commands) or fail(*commands) is called: `output = ""`.
succeed_fail_call(op, commands) ==
  /\ sf_pc # "loop"
  /\ sf_op' = op
  /\ sf_pc' = "loop"
  /\ sf_commands' = commands
  /\ sf_executed' = <<>>
  /\ sf_output' = <<>>
  /\ sf_result' = <<>>
  /\ sf_xml' = <<>>
  /\ UNCHANGED notSucceed

\* The index of the command the for loop takes next.
NextCommand == Len(sf_executed) + 1

\* A variant of the loop body of succeed that goes on after a failure.
succeed_loop_no_raise ==
  /\ sf_op = "succeed" /\ sf_pc = "loop"
  /\ NextCommand <= Len(sf_commands)
  /\ LET r == sf_commands[NextCommand] IN
       /\ sf_executed' = Append(sf_executed, NextCommand)
       /\ sf_pc' = "loop"
       /\ sf_output' = sf_output \o r.out
       /\ sf_xml' = sf_xml \o <<"nest", "head", "line", "/nest">>
  /\ UNCHANGED <<sf_op, sf_commands, sf_result, notSucceed>>

\* One turn of the loop of succeed: the nested scope, execute, and either
\* the log line and the raise (the scope is left open in the log) or
\* `output += out` and the end of the scope.
succeed_loop ==
  /\ sf_op = "succeed" /\ sf_pc = "loop"
  /\ NextCommand <= Len(sf_commands)
  /\ LET r == sf_commands[NextCommand] IN
       /\ sf_executed' = Append(sf_executed, NextCommand)
       /\ IF r.status # 0
            THEN /\ sf_pc' = "raised"
                 /\ sf_output' = sf_output
                 /\ sf_xml' = sf_xml \o <<"nest", "head", "line">>
            ELSE /\ sf_pc' = "loop"
                 /\ sf_output' = sf_output \o r.out
                 /\ sf_xml' = sf_xml \o <<"nest", "head", "line", "/nest">>
  /\ UNCHANGED <<sf_op, sf_commands, sf_result, notSucceed>>

\* The loop of succeed is over: `return output`.
succeed_return ==
  /\ sf_op = "succeed" /\ sf_pc = "loop"
  /\ NextCommand > Len(sf_commands)
  /\ sf_pc' = "returned"
  /\ sf_result' = sf_output
  /\ UNCHANGED <<sf_op, sf_commands, sf_executed, sf_output, sf_xml, notSucceed>>

\* One turn of the loop of fail: the nested scope, execute, and either the
\* raise or the end of the scope.
fail_loop ==
  /\ sf_op = "fail" /\ sf_pc = "loop"
  /\ NextCommand <= Len(sf_commands)
  /\ LET r == sf_commands[NextCommand] IN
       /\ sf_executed' = Append(sf_executed, NextCommand)
       /\ IF r.status = 0
            THEN /\ sf_pc' = "raised"
                 /\ sf_xml' = sf_xml \o <<"nest", "head">>
            ELSE /\ sf_pc' = "loop"
                 /\ sf_xml' = sf_xml \o <<"nest", "head", "line", "/nest">>
  /\ UNCHANGED <<sf_op, sf_commands, sf_output, sf_result, notSucceed>>

\* The loop of fail is over: the method returns None.
fail_return ==
  /\ sf_op = "fail" /\ sf_pc = "loop"
  /\ NextCommand > Len(sf_commands)
  /\ sf_pc' = "returned"
  /\ UNCHANGED <<sf_op, sf_commands, sf_executed, sf_output, sf_result, sf_xml,
                 notSucceed>>

NextSucceed ==
  \/ \E op \in {"succeed", "fail"}, commands \in CommandLists :
       succeed_fail_call(op, commands)
  \/ succeed_loop
  \/ succeed_return
  \/ fail_loop
  \/ fail_return

(***************************************************************************)
(* Driver: Logger, Machine lifecycle, run_tests, subtest, clean_up         *)
(***************************************************************************)

\* Python's None, for pid and process; process ids start at 1.
Null == 0

\* Script operations taken by one run of the test script.
MaxOps == 3

\* Serial lines the guests print during one run.
MaxSerial == 1

\* sys.argv[1:], named by the machine each start command makes.
vm_scripts == <<"a", "b">>

Machines == {vm_scripts[i] : i \in 1..Len(vm_scripts)}

\* The VLANS of the environment, deduplicated, in order.
vlan_nrs == <<1, 2>>

\* The sockets a Machine keeps in its fields once start has made them.
AllSocks == {"monitor_socket", "shell_socket", "monitor", "shell"}

\* What the environment does to the operation under way: nothing, bind()
\* fails in create_socket, reading the monitor prompt in start raises, a
\* send or recv of the operation itself raises, or the operation's blocking
\* read or wait never returns.
Envs == {"ok", "bind_error", "prompt_error", "io_error", "hang"}

\* The state the operations of the main thread read and write, with the
\* exception in flight (raised) and a call that never returns (hung).
World ==
  [xml |-> xml, queue |-> queue, closed |-> log_closed,
   booted |-> booted, connected |-> connected, pid |-> pid,
   process |-> process, procs |-> procs, socks |-> socks,
   vde_kills |-> vde_kills, signals |-> signals, cleanups |-> cleanups,
   workers |-> workers, banner_reads |-> banner_reads,
   final_syncs |-> final_syncs, sent |-> sent,
   raised |-> FALSE, hung |-> FALSE]

Running(w) == ~w.raised /\ ~w.hung

Raise(w) == [w EXCEPT !.raised = TRUE]

Hang(w) == [w EXCEPT !.hung = TRUE]

\* Logger.drain_log_queue, the log file open: every queued record becomes a
\* line of type "serial".
drain_log_queue(w) ==
  [w EXCEPT !.xml = @ \o [i \in 1..Len(w.queue) |-> "serial"],
            !.queue = <<>>]

\* Logger.log: drain, then one line element. A write to the closed log file
\* raises ValueError; the drain has then taken one record off the queue.
log(w) ==
  IF ~Running(w) THEN w
  ELSE IF w.closed
    THEN [Raise(w) EXCEPT !.queue = IF @ = <<>> THEN @ ELSE Tail(@)]
    ELSE [drain_log_queue(w) EXCEPT !.xml = Append(@, "line")]

\* Logger.nested up to the yield: <nest>, the head element, drain.
nested_enter(w) ==
  IF ~Running(w) THEN w
  ELSE IF w.closed THEN Raise(w)
  ELSE drain_log_queue([w EXCEPT !.xml = @ \o <<"nest", "head">>])

\* Logger.nested after the yield, reached only when the body did not raise:
\* drain, the "(X.XX seconds)" line, </nest>.
nested_exit(w) ==
  LET w1 == log(w) IN
    IF ~Running(w1) THEN w1 ELSE [w1 EXCEPT !.xml = Append(@, "/nest")]

\* Logger.close: </logfile>, then the file is closed.
close(w) ==
  IF ~Running(w) THEN w
  ELSE IF w.closed THEN Raise(w)
  ELSE [w EXCEPT !.xml = Append(@, "/logfile"), !.closed = TRUE,
                 !.signals = Append(@, <<"close">>)]

\* Machine.start.
start(w, m, env) ==
  IF ~Running(w) \/ w.booted[m] THEN w
  ELSE LET w1 == log(w) IN
    IF ~Running(w1) THEN w1
    ELSE IF env = "bind_error" THEN Raise(w1)
    ELSE LET p == Len(w1.procs) + 1
             w2 == [w1 EXCEPT
                      !.socks[m] = AllSocks,
                      !.process[m] = p,
                      !.procs = Append(@, [m |-> m, state |-> "running",
                                           kills |-> 0]),
                      !.workers[m] = @ + 1]
         IN IF env = "prompt_error" THEN Raise(w2)
            ELSE log([w2 EXCEPT !.pid[m] = p, !.booted[m] = TRUE])

\* A variant of Machine.connect without the test of `connected`.
connect_again(w, m, env) ==
  IF ~Running(w) THEN w
  ELSE LET w1 == start(nested_enter(w), m, env) IN
    IF ~Running(w1) THEN w1
    ELSE IF env = "io_error" THEN Raise(w1)
    ELSE IF env = "hang" THEN Hang(w1)
    ELSE nested_exit([log(log([w1 EXCEPT !.banner_reads[m] = @ + 1]))
                        EXCEPT !.connected[m] = TRUE])

\* Machine.connect: the scope, start, the read of the banner (which may
\* raise or never return), the two log lines, the flag.
connect(w, m, env) ==
  IF ~Running(w) \/ w.connected[m] THEN w
  ELSE LET w1 == start(nested_enter(w), m, env) IN
    IF ~Running(w1) THEN w1
    ELSE IF env = "io_error" THEN Raise(w1)
    ELSE IF env = "hang" THEN Hang(w1)
    ELSE nested_exit([log(log([w1 EXCEPT !.banner_reads[m] = @ + 1]))
                        EXCEPT !.connected[m] = TRUE])

\* Machine.execute, its framing loop left to the shell channel above: it
\* returns a pair, raises from send or recv, or never returns.
execute(w, m, env) ==
  LET w1 == connect(w, m, env) IN
    IF ~Running(w1) THEN w1
    ELSE IF env = "io_error" THEN Raise(w1)
    ELSE IF env = "hang" THEN Hang(w1)
    ELSE w1

\* A variant of wait_for_shutdown that leaves `connected` as it is.
wait_for_shutdown_keeps_connected(w, m, env) ==
  IF ~Running(w) \/ ~w.booted[m] THEN w
  ELSE LET w1 == nested_enter(w) IN
    IF ~Running(w1) THEN w1
    ELSE IF env = "hang" THEN Hang(w1)
    ELSE nested_exit([w1 EXCEPT !.procs[w1.process[m]].state = "reaped",
                                !.pid[m] = Null,
                                !.booted[m] = FALSE])

\* Machine.wait_for_shutdown.
wait_for_shutdown(w, m, env) ==
  IF ~Running(w) \/ ~w.booted[m] THEN w
  ELSE LET w1 == nested_enter(w) IN
    IF ~Running(w1) THEN w1
    ELSE IF env = "hang" THEN Hang(w1)
    ELSE nested_exit([w1 EXCEPT !.procs[w1.process[m]].state = "reaped",
                                !.pid[m] = Null,
                                !.booted[m] = FALSE,
                                !.connected[m] = FALSE])

\* A variant of Machine.shutdown that waits without the poweroff.
shutdown_no_poweroff(w, m, env) ==
  IF ~Running(w) \/ ~w.booted[m] THEN w
  ELSE IF env = "io_error" THEN Raise(w)
  ELSE wait_for_shutdown(w, m, env)

\* Machine.shutdown: the send may raise; the wait may never return.
shutdown(w, m, env) ==
  IF ~Running(w) \/ ~w.booted[m] THEN w
  ELSE IF env = "io_error" THEN Raise(w)
  ELSE wait_for_shutdown(
         [w EXCEPT !.sent = Append(@, <<m, "shell", "poweroff\n">>)], m, env)

\* Machine.send_monitor_command: the log line, the send, the wait for the
\* next prompt (which never comes when QEMU has gone).
send_monitor_command(w, m, command, env) ==
  LET w1 == log(w) IN
    IF ~Running(w1) THEN w1
    ELSE IF env = "io_error" THEN Raise(w1)
    ELSE LET w2 == [w1 EXCEPT
                      !.sent = Append(@, <<m, "monitor", command \o "\n">>)]
         IN IF env = "hang" THEN Hang(w2) ELSE w2

\* Machine.crash.
crash(w, m, env) ==
  IF ~Running(w) \/ ~w.booted[m] THEN w
  ELSE wait_for_shutdown(send_monitor_command(log(w), m, "quit", env), m, env)

\* The first loop of clean_up, from machine i of the list on.
RECURSIVE KillMachines(_, _)
KillMachines(w, i) ==
  IF i > Len(vm_scripts) THEN w
  ELSE LET m == vm_scripts[i] IN
    IF w.pid[m] = Null THEN KillMachines(w, i + 1)
    ELSE LET w1 == log(w) IN
      KillMachines([w1 EXCEPT !.procs[w1.process[m]].kills = @ + 1,
                              !.signals = Append(@, <<"kill", m>>)], i + 1)

\* The second loop of clean_up, from switch i of the list on.
RECURSIVE KillSwitches(_, _)
KillSwitches(w, i) ==
  IF i > Len(vlan_nrs) THEN w
  ELSE KillSwitches([w EXCEPT !.vde_kills[i] = @ + 1,
                              !.signals = Append(@, <<"vde", vlan_nrs[i]>>)],
                    i + 1)

\* A variant of clean_up that closes the Logger before it kills the switches.
CleanUpBody_close_first(w) ==
  LET w1 == close(nested_exit(KillMachines(w, 1))) IN
    [KillSwitches(w1, 1) EXCEPT !.raised = FALSE]

\* clean_up inside its "cleaning up" scope, and the close after it.
CleanUpBody(w) ==
  close(nested_exit(KillSwitches(KillMachines(w, 1), 1)))

\* clean_up. Each invocation is recorded: whether it raised, wrote to the
\* log, and how many signals it sent.
clean_up(w) ==
  LET w1 == nested_enter(w)
      w2 == IF Running(w1) THEN CleanUpBody(w1) ELSE w1
  IN [w2 EXCEPT !.cleanups =
        Append(@, [raised |-> w2.raised,
                   wrote |-> w2.xml # w.xml,
                   signals |-> Len(w2.signals) - Len(w.signals)])]

\* A variant of the unwinding in which subtest has no except clause.
Unwind_uncaught(w, stk) == [w |-> w, stack |-> <<>>, caught |-> FALSE]

\* An exception travels up the script's open scopes: a scope of
\* Logger.nested lets it pass and stays open in the log; subtest's except
\* clause logs the error and leaves its own nested scope in order, so the
\* script goes on after that subtest. caught is FALSE when no subtest held
\* it: run_tests then calls sys.exit(1).
RECURSIVE Unwind(_, _)
Unwind(w, stk) ==
  IF stk = <<>> THEN [w |-> w, stack |-> stk, caught |-> FALSE]
  ELSE LET rest == SubSeq(stk, 1, Len(stk) - 1) IN
    IF stk[Len(stk)] = "nested" THEN Unwind(w, rest)
    ELSE LET w1 == nested_exit(log([w EXCEPT !.raised = FALSE])) IN
      IF Running(w1) THEN [w |-> w1, stack |-> rest, caught |-> TRUE]
      ELSE Unwind(w1, rest)

InitDriver ==
  /\ pc = "run_tests"
  /\ xml = <<"logfile">> \o [i \in 1..Len(vlan_nrs) |-> "line"]
  /\ queue = <<>>
  /\ log_closed = FALSE
  /\ stack = <<>>
  /\ nr_tests = 0
  /\ nr_succeeded = 0
  /\ exit_code = -1
  /\ booted = [m \in Machines |-> FALSE]
  /\ connected = [m \in Machines |-> FALSE]
  /\ pid = [m \in Machines |-> Null]
  /\ process = [m \in Machines |-> Null]
  /\ procs = <<>>
  /\ socks = [m \in Machines |-> {}]
  /\ vde_kills = [i \in 1..Len(vlan_nrs) |-> 0]
  /\ signals = <<>>
  /\ cleanups = <<>>
  /\ nops = 0
  /\ nserial = 0
  /\ workers = [m \in Machines |-> 0]
  /\ banner_reads = [m \in Machines |-> 0]
  /\ final_syncs = <<>>
  /\ summary = <<>>
  /\ worker_ended = {}
  /\ sent = <<>>
  /\ idle_call = "none"

\* The variables take the world f.
CommitWorld(f) ==
  /\ xml' = f.xml
  /\ queue' = f.queue
  /\ log_closed' = f.closed
  /\ booted' = f.booted
  /\ connected' = f.connected
  /\ pid' = f.pid
  /\ process' = f.process
  /\ procs' = f.procs
  /\ socks' = f.socks
  /\ vde_kills' = f.vde_kills
  /\ signals' = f.signals
  /\ cleanups' = f.cleanups
  /\ workers' = f.workers
  /\ banner_reads' = f.banner_reads
  /\ final_syncs' = f.final_syncs
  /\ sent' = f.sent

\* A variant of the end of a statement in which run_tests has no
\* sys.exit(1): the exit status stays as it was.
Commit_no_exit_status(w, stk) ==
  LET u == IF w.raised THEN Unwind(w, stk)
           ELSE [w |-> w, stack |-> stk, caught |-> TRUE]
  IN /\ CommitWorld(u.w)
     /\ stack' = u.stack
     /\ pc' = IF w.hung THEN "hung" ELSE IF u.caught THEN "script" ELSE "atexit"
     /\ exit_code' = IF u.caught THEN exit_code ELSE 0

\* The variables take the world an operation of the script left, after the
\* exception it raised, if any, has travelled up the scopes stk.
Commit(w, stk) ==
  LET u == IF w.raised THEN Unwind(w, stk)
           ELSE [w |-> w, stack |-> stk, caught |-> TRUE]
  IN /\ CommitWorld(u.w)
     /\ stack' = u.stack
     /\ pc' = IF w.hung THEN "hung" ELSE IF u.caught THEN "script" ELSE "atexit"
     /\ exit_code' = IF u.caught THEN exit_code ELSE 1

\* A statement of the test script is about to run.
InScript == pc = "script" /\ nops < MaxOps

\* A statement of the script was run; call tells whether it was a start or
\* a connect that found nothing to do.
Stepped(call) ==
  /\ nops' = nops + 1
  /\ idle_call' = call
  /\ UNCHANGED <<nserial, summary, worker_ended, notDriver>>

\* run_tests enters `with log.nested("running the VM test script")` and
\* hands over to exec(tests).
run_tests_enter ==
  /\ pc = "run_tests"
  /\ Commit(nested_enter(World), <<>>)
  /\ UNCHANGED <<nr_tests, nr_succeeded, nops, nserial, summary, idle_call,
                 worker_ended, notDriver>>

\* The script calls log.log.
script_log ==
  /\ InScript
  /\ Commit(log(World), stack)
  /\ UNCHANGED <<nr_tests, nr_succeeded>>
  /\ Stepped("none")

\* The script enters a `with log.nested(...)` block.
script_nested_enter ==
  /\ InScript
  /\ LET w == nested_enter(World) IN
       Commit(w, IF Running(w) THEN Append(stack, "nested") ELSE stack)
  /\ UNCHANGED <<nr_tests, nr_succeeded>>
  /\ Stepped("none")

Top(stk) == stk[Len(stk)]

Pop(stk) == SubSeq(stk, 1, Len(stk) - 1)

\* The script leaves a `with log.nested(...)` block at its end.
script_nested_exit ==
  /\ InScript
  /\ stack # <<>> /\ Top(stack) = "nested"
  /\ Commit(nested_exit(World), Pop(stack))
  /\ UNCHANGED <<nr_tests, nr_succeeded>>
  /\ Stepped("none")

\* The script enters `with subtest(name)`.
subtest_enter ==
  /\ InScript
  /\ LET w == nested_enter(World) IN
       /\ Commit(w, IF Running(w) THEN Append(stack, "subtest") ELSE stack)
       /\ nr_tests' = IF Running(w) THEN nr_tests + 1 ELSE nr_tests
  /\ UNCHANGED nr_succeeded
  /\ Stepped("none")

\* The body of a subtest ends without an exception.
subtest_exit ==
  /\ InScript
  /\ stack # <<>> /\ Top(stack) = "subtest"
  /\ nr_succeeded' = nr_succeeded + 1
  /\ Commit(nested_exit(World), Pop(stack))
  /\ UNCHANGED nr_tests
  /\ Stepped("none")

\* A statement of the script raises an Exception.
script_raise ==
  /\ InScript
  /\ Commit(Raise(World), stack)
  /\ UNCHANGED <<nr_tests, nr_succeeded>>
  /\ Stepped("none")

\* The script calls Machine.start on machine m.
script_start(m, env) ==
  /\ InScript
  /\ Commit(start(World, m, env), stack)
  /\ UNCHANGED <<nr_tests, nr_succeeded>>
  /\ Stepped(IF booted[m] THEN "start" ELSE "none")

\* The script calls Machine.connect on machine m.
script_connect(m, env) ==
  /\ InScript
  /\ Commit(connect(World, m, env), stack)
  /\ UNCHANGED <<nr_tests, nr_succeeded>>
  /\ Stepped(IF connected[m] THEN "connect" ELSE "none")

\* The script calls Machine.execute on machine m.
script_execute(m, env) ==
  /\ InScript
  /\ Commit(execute(World, m, env), stack)
  /\ UNCHANGED <<nr_tests, nr_succeeded>>
  /\ Stepped("none")

\* The script calls Machine.shutdown on machine m.
script_shutdown(m, env) ==
  /\ InScript
  /\ Commit(shutdown(World, m, env), stack)
  /\ UNCHANGED <<nr_tests, nr_succeeded>>
  /\ Stepped("none")

\* The script calls Machine.crash on machine m.
script_crash(m, env) ==
  /\ InScript
  /\ Commit(crash(World, m, env), stack)
  /\ UNCHANGED <<nr_tests, nr_succeeded>>
  /\ Stepped("none")

\* The script calls Machine.wait_for_shutdown on machine m.
script_wait_for_shutdown(m, env) ==
  /\ InScript
  /\ Commit(wait_for_shutdown(World, m, env), stack)
  /\ UNCHANGED <<nr_tests, nr_succeeded>>
  /\ Stepped("none")

\* The script calls clean_up itself (it is a global of the script).
script_clean_up ==
  /\ InScript
  /\ Commit(clean_up(World), stack)
  /\ UNCHANGED <<nr_tests, nr_succeeded>>
  /\ Stepped("none")

\* The final `machine.execute("sync")` of every machine that is up, from
\* machine i of the list on.
RECURSIVE SyncAll(_, _, _)
SyncAll(w, i, env) ==
  IF i > Len(vm_scripts) THEN w
  ELSE LET m == vm_scripts[i] IN
    SyncAll(IF Running(w) /\ w.booted[m] /\ w.connected[m]
              THEN execute([w EXCEPT !.final_syncs = Append(@, m)], m, env)
              ELSE w,
            i + 1, env)

\* exec(tests) returns: the scope of run_tests closes, the machines that are
\* up are synced, the summary is logged, and the interpreter exits. An
\* exception here is outside the try of run_tests: the interpreter exits
\* with status 1.
script_end(env) ==
  /\ pc = "script"
  /\ stack = <<>>
  /\ LET w1 == SyncAll(nested_exit(World), 1, env)
         w2 == IF nr_tests # 0 THEN log(w1) ELSE w1
     IN /\ CommitWorld(w2)
        /\ stack' = stack
        /\ pc' = IF w2.hung THEN "hung" ELSE "atexit"
        /\ exit_code' = IF w2.hung THEN exit_code
                        ELSE IF w2.raised THEN 1 ELSE 0
        /\ summary' = IF nr_tests # 0 /\ Running(w2)
                        THEN <<nr_succeeded, nr_tests>> ELSE summary
  /\ UNCHANGED <<nr_tests, nr_succeeded, nops, nserial, idle_call,
                 worker_ended, notDriver>>

\* The interpreter exits and runs the hook atexit.register was given.
atexit_clean_up ==
  /\ pc = "atexit"
  /\ LET w == clean_up(World) IN
       /\ CommitWorld(w)
       /\ pc' = "exited"
       /\ UNCHANGED <<stack, exit_code>>
  /\ UNCHANGED <<nr_tests, nr_succeeded, nops, nserial, summary, idle_call,
                 worker_ended, notDriver>>

\* The process ids of one run: a statement spawns one subprocess at most.
ProcessIds == 1..MaxOps

\* The subprocesses of machine m whose serial-drain worker is alive.
AliveWorkers(m) ==
  {p \in 1..Len(procs) : procs[p].m = m /\ p \notin worker_ended}

\* A serial-drain worker of machine m read a line and calls Logger.enqueue.
enqueue(m) ==
  /\ pc \in {"script", "hung", "atexit"}
  /\ AliveWorkers(m) # {}
  /\ nserial < MaxSerial
  /\ nserial' = nserial + 1
  /\ queue' = Append(queue, m)
  /\ UNCHANGED <<pc, xml, log_closed, stack, nr_tests, nr_succeeded,
                 exit_code, booted, connected, pid, process, procs, socks,
                 vde_kills, signals, cleanups, nops, workers, banner_reads,
                 final_syncs, summary, worker_ended, sent, idle_call,
                 notDriver>>

\* The subprocess p has exited (it was waited for, or killed): its pipe is
\* at its end, the loop of process_serial_output is over and the worker
\* returns. Nothing waits for that.
worker_eof(p) ==
  /\ pc \in {"script", "hung", "atexit"}
  /\ p <= Len(procs)
  /\ p \notin worker_ended
  /\ procs[p].state = "reaped" \/ procs[p].kills > 0
  /\ worker_ended' = worker_ended \cup {p}
  /\ UNCHANGED <<pc, xml, queue, log_closed, stack, nr_tests, nr_succeeded,
                 exit_code, booted, connected, pid, process, procs, socks,
                 vde_kills, signals, cleanups, nops, nserial, workers,
                 banner_reads, final_syncs, summary, sent, idle_call,
                 notDriver>>

Next ==
  \/ run_tests_enter
  \/ script_log
  \/ script_nested_enter
  \/ script_nested_exit
  \/ subtest_enter
  \/ subtest_exit
  \/ script_raise
  \/ \E m \in Machines, env \in Envs : script_start(m, env)
  \/ \E m \in Machines, env \in Envs : script_connect(m, env)
  \/ \E m \in Machines, env \in Envs : script_execute(m, env)
  \/ \E m \in Machines, env \in Envs : script_shutdown(m, env)
  \/ \E m \in Machines, env \in Envs : script_crash(m, env)
  \/ \E m \in Machines, env \in Envs : script_wait_for_shutdown(m, env)
  \/ script_clean_up
  \/ \E env \in Envs : script_end(env)
  \/ atexit_clean_up
  \/ \E m \in Machines : enqueue(m)

\* The driver with the end of its workers. Next leaves that step out: a
\* worker that has returned differs from one that reads nothing more only
\* in the count of the workers alive.
NextWorkers ==
  \/ Next
  \/ \E p \in ProcessIds : worker_eof(p)

(***************************************************************************)
(* __main__ and the environment: VLANS, create_vlan, the env of the        *)
(* subprocess that start spawns (test-driver.py:95-116, 593-625, 786-815)  *)
(***************************************************************************)

\* Longest generated value of the variable VLANS, in characters.
MaxVlansText == 3

VlansChars == {"1", "2", " "}

\* The values of VLANS the driver is launched with: short texts, "2 1 2".
VlansTexts ==
  SeqsUpTo(VlansChars, MaxVlansText) \cup {<<"2", " ", "1", " ", "2">>}

\* The values of QEMU_OPTS the driver is launched with; <<>> for no such
\* variable in the environment.
QemuOptsValues == {<<>>, <<"-m 512">>}

\* str.split() from position i on, cur being the word under way: the words
\* between runs of whitespace, no empty word.
RECURSIVE SplitFrom(_, _, _)
SplitFrom(text, i, cur) ==
  LET word == IF cur = <<>> THEN <<>> ELSE <<cur>> IN
    IF i > Len(text) THEN word
    ELSE IF IsSpace(text[i]) THEN word \o SplitFrom(text, i + 1, <<>>)
    ELSE SplitFrom(text, i + 1, Append(cur, text[i]))

Split(text) == SplitFrom(text, 1, <<>>)

\* A variant of the deduplication that keeps every occurrence.
FromKeys_keep_all(words) == words

\* list(dict.fromkeys(words)): each word is inserted as a key in turn; a key
\* already there keeps its place.
RECURSIVE FromKeys(_)
FromKeys(words) ==
  IF words = <<>> THEN <<>>
  ELSE LET d == FromKeys(SubSeq(words, 1, Len(words) - 1))
           w == words[Len(words)]
       IN IF \E i \in 1..Len(d) : d[i] = w THEN d ELSE Append(d, w)

\* " ".join(texts)
RECURSIVE Join(_)
Join(texts) ==
  IF texts = <<>> THEN <<>>
  ELSE IF Len(texts) = 1 THEN texts[1]
  ELSE texts[1] \o <<" ">> \o Join(Tail(texts))

\* dict.update: the entries of other replace and extend those of dict.
Update(dict, other) == other @@ dict

\* os.environ.get(name, "")
Get(env, name) == IF name \in DOMAIN env THEN env[name] ELSE <<>>

\* The name QEMU_VDE_SOCKET_<nr> and the path ./vde<nr>.ctl.
VdeSocketName(nr) == <<"QEMU_VDE_SOCKET_">> \o nr

VdeSocketPath(nr) == <<"./vde">> \o nr \o <<".ctl">>

\* The value qemu_options of Machine.start for machine m.
qemu_options(m) ==
  Join(<<IF allow_reboot[m] THEN <<>> ELSE <<"-no-reboot">>,
         <<"-monitor unix:monitor">>,
         <<"-chardev socket,id=shell,path=shell">>,
         <<"-device virtio-serial">>,
         <<"-device virtconsole,chardev=shell">>,
         <<"-device virtio-rng-pci">>,
         IF <<"DISPLAY">> \in DOMAIN environ
           THEN <<"-serial stdio">> ELSE <<"-nographic">> >>)
    \o <<" ">> \o Get(environ, <<"QEMU_OPTS">>)

\* The dict `environment` that start hands to Popen for machine m.
environment(m) ==
  Update((<<"QEMU_OPTS">> :> qemu_options(m))
           @@ (<<"SHARED_DIR">> :> <<"xchg-shared">>)
           @@ (<<"USE_TMPDIR">> :> <<"1">>),
         environ)

InitMain ==
  /\ main_pc = "launch"
  /\ environ = <<>>
  /\ vlan_ids = <<>>
  /\ switches = <<>>
  /\ vde_sockets = <<>>
  /\ allow_reboot = [m \in Machines |-> FALSE]
  /\ spawn_env = <<>>
  /\ machine_kills = [m \in Machines |-> 0]

\* The driver is launched with VLANS = text, with QEMU_OPTS = opts unless
\* opts is empty, and with or without DISPLAY; line 789 makes vlan_nrs.
main_launch(text, opts, display) ==
  /\ main_pc = "launch"
  /\ main_pc' = "create_vlan"
  /\ environ' =
       (<<"VLANS">> :> text)
         @@ (IF display THEN <<"DISPLAY">> :> <<":0">> ELSE <<>>)
         @@ (IF opts # <<>> THEN <<"QEMU_OPTS">> :> opts ELSE <<>>)
  /\ vlan_ids' = FromKeys(Split(text))
  /\ UNCHANGED <<switches, vde_sockets, allow_reboot, spawn_env,
                 machine_kills, notMain>>

\* create_vlan for the next id of vlan_nrs: the switch is spawned, asked
\* for its version, and its control socket is looked for. The readline may
\* never return; a missing socket raises 'cannot start vde_switch', which
\* nothing catches: the interpreter exits, with no atexit hook registered
\* yet.
create_vlan(outcome) ==
  /\ main_pc = "create_vlan"
  /\ Len(switches) < Len(vlan_ids)
  /\ switches' = Append(switches, [nr |-> vlan_ids[Len(switches) + 1],
                                    ready |-> outcome = "ok",
                                    kills |-> 0])
  /\ main_pc' = CASE outcome = "ok" -> "create_vlan"
                   [] outcome = "hang" -> "hung"
                   [] OTHER -> "exited"
  /\ UNCHANGED <<environ, vlan_ids, vde_sockets, allow_reboot, spawn_env,
                 machine_kills, notMain>>

\* os.environ after the loop of lines 791-792 over the switches 1..i.
RECURSIVE Exported(_, _)
Exported(env, i) ==
  IF i = 0 THEN env
  ELSE Update(Exported(env, i - 1),
              VdeSocketName(switches[i].nr) :> VdeSocketPath(switches[i].nr))

\* Every create_vlan has returned: vde_sockets is bound, the socket of each
\* switch is exported, the machines are made (allowReboot as their makers
\* chose) and clean_up is registered; run_tests takes over.
main_setup(reboot) ==
  /\ main_pc = "create_vlan"
  /\ Len(switches) = Len(vlan_ids)
  /\ vde_sockets' = [i \in 1..Len(switches) |-> i]
  /\ environ' = Exported(environ, Len(switches))
  /\ allow_reboot' = reboot
  /\ main_pc' = "run_tests"
  /\ UNCHANGED <<vlan_ids, switches, spawn_env, machine_kills, notMain>>

\* Machine.start of machine m, lines 593-625: the subprocess is spawned with
\* the dict environment.
main_start(m) ==
  /\ main_pc = "run_tests"
  /\ m \notin DOMAIN spawn_env
  /\ spawn_env' = (m :> environment(m)) @@ spawn_env
  /\ UNCHANGED <<main_pc, environ, vlan_ids, switches, vde_sockets,
                 allow_reboot, machine_kills, notMain>>

\* The interpreter exits after run_tests and runs clean_up: a kill for the
\* subprocess of every machine that has one, a kill for every switch of
\* vde_sockets.
main_exit ==
  /\ main_pc = "run_tests"
  /\ main_pc' = "exited"
  /\ machine_kills' =
       [m \in Machines |->
          machine_kills[m] + (IF m \in DOMAIN spawn_env THEN 1 ELSE 0)]
  /\ switches' =
       [i \in 1..Len(switches) |->
          IF \E j \in 1..Len(vde_sockets) : vde_sockets[j] = i
            THEN [switches[i] EXCEPT !.kills = @ + 1] ELSE switches[i]]
  /\ UNCHANGED <<environ, vlan_ids, vde_sockets, allow_reboot, spawn_env,
                 notMain>>

NextMain ==
  \/ \E text \in VlansTexts, opts \in QemuOptsValues, display \in BOOLEAN :
       main_launch(text, opts, display)
  \/ \E outcome \in {"ok", "no_ctl", "hang"} : create_vlan(outcome)
  \/ \E reboot \in [Machines -> BOOLEAN] : main_setup(reboot)
  \/ \E m \in Machines : main_start(m)
  \/ main_exit

Init ==
  /\ InitRetry
  /\ InitMonitor
  /\ InitShell
  /\ InitQueue
  /\ InitLogger
  /\ InitSanitise
  /\ InitKeys
  /\ InitSucceed
  /\ InitMain
  /\ InitDriver

Spec == Init /\ [][Next]_vars

\* The step the interpreter takes when it exits: it runs the atexit hook,
\* which is atexit_clean_up, the only action that leaves pc = "atexit".
AtExitStep == pc = "atexit" /\ pc' = "exited"

\* The interpreter runs its atexit hooks whenever it exits.
SpecFair == Spec /\ WF_pc(AtExitStep)

SpecWorkers == Init /\ [][NextWorkers]_vars

SpecRetry == Init /\ [][NextRetry]_vars

SpecMonitor == Init /\ [][NextMonitor]_vars

SpecShell == Init /\ [][NextShell]_vars

SpecQueue == Init /\ [][NextQueue]_vars

SpecLogger == Init /\ [][NextLogger]_vars

SpecSanitise == Init /\ [][NextSanitise]_vars

SpecKeys == Init /\ [][NextKeys]_vars

SpecSucceed == Init /\ [][NextSucceed]_vars

SpecMain == Init /\ [][NextMain]_vars

(***************************************************************************)
(* Claims about retry                                                      *)
(***************************************************************************)

\* C4 (as stated): retry(f) invokes f at most 900 times in total.
C4_AtMost900Calls == fn_calls <= 900

\* C4 (amended): retry(f) invokes f at most 901 times in total: up to 900
\* calls with last=false followed by at most one call with last=true; the
\* call with last=true is made only after 900 calls with last=false, and when
\* f always returned false the final (901st) invocation is the only one that
\* received last=true.
C4_RetryBound ==
  /\ fn_calls <= 901
  /\ fn_calls - fn_last_calls <= 900
  /\ fn_last_calls <= 1
  /\ (fn_last_calls = 1 => fn_calls = 901)
  /\ (retry_pc = "raised" => fn_last_calls = 1 /\ fn_trues = 0)

\* C4 witness: f always returned false and the final call had last=true.
C4_Witness == retry_pc = "raised" /\ fn_calls = 901 /\ fn_last_calls = 1

\* C5: retry returns normally at the first invocation of f that returns true
\* and never invokes f after it; it raises 'action timed out' if and only if
\* every invocation, the final last=true one included, returned false.
C5_RetryOutcome ==
  /\ fn_trues <= 1
  /\ (fn_trues = 1 <=> retry_pc = "returned")
  /\ (retry_pc = "raised" <=> (fn_trues = 0 /\ fn_last_calls = 1))
  /\ (retry_pc = "loop" => fn_trues = 0 /\ fn_last_calls = 0)

\* C5 witness: f returned true after some false results, retry has returned.
C5_Witness == retry_pc = "returned" /\ fn_calls > 1 /\ fn_trues = 1

(***************************************************************************)
(* Claims about the monitor channel                                        *)
(***************************************************************************)

\* C3: wait_for_monitor_prompt returns the text accumulated over all chunks
\* read since it was called, and it returns as soon as that accumulated text
\* ends with "(qemu) ", however the monitor bytes are split into chunks.
C3_MonitorFraming ==
  /\ (mon_pc = "returned" => mon_answer = mon_read)
  /\ (mon_pc = "wait" => ~EndsWith(mon_read, Prompt))

\* C19: when the monitor stream has reached end-of-file (recv has returned
\* b"" because QEMU exited or closed the socket), wait_for_monitor_prompt
\* has stopped with an error: it is not still in its loop.
C19_EofRaises == mon_got_eof => mon_pc # "wait"

(***************************************************************************)
(* Claims about the shell channel                                          *)
(***************************************************************************)

\* C1: whatever way the bytes "<output>|!EOF <status>\n" of a command are
\* split into chunks, execute returns, and returns exactly (status, output):
\* it is never still waiting once the whole reply has been received, and
\* what it returns is the command's exit status and merged output.
C1_ShellRoundTrip ==
  /\ (exec_pc = "recv" => shell_stream # <<>>)
  /\ (exec_pc = "returned" =>
        /\ exec_ret.status = exec_cmd.status
        /\ Chars(exec_ret.output) = exec_cmd.out)

\* C2: the output and the status execute returns hold no byte that an
\* earlier command (or its sentinel line) produced.
C2_NoBleed ==
  exec_pc = "returned" =>
    /\ \A i \in 1..Len(exec_ret.output) : ~exec_ret.output[i].stale
    /\ \A i \in 1..Len(exec_ret.digits) : ~exec_ret.digits[i].stale

(***************************************************************************)
(* Claims about Logger.queue                                               *)
(***************************************************************************)

\* C14: a worker that calls Logger.enqueue always returns without waiting
\* for the main thread, also when the queue holds its 1000 records (the
\* record is then dropped), and the queue never holds more than 1000.
C14_EnqueueNonBlocking ==
  /\ \A t \in Workers : worker_pc[t] # "blocked"
  /\ q_count <= 1000

\* The serial lines of the first n elements of x, in order.
RECURSIVE SerialIds(_, _)
SerialIds(x, n) ==
  IF n = 0 THEN <<>>
  ELSE IF x[n].tag = "serial" THEN Append(SerialIds(x, n - 1), x[n].id)
  ELSE SerialIds(x, n - 1)

\* C15: under any interleaving of the workers with the main thread, every
\* record whose enqueue completed before a log call (or the exit of a
\* scope) began is in the log as a serial line before that call's own line
\* (or the scope's trailer), and the serial lines are in the log in the
\* order of their enqueue, each at most once.
C15_CausalLinearization ==
  LET ids == SerialIds(lg_xml, Len(lg_xml)) IN
    /\ \A i \in 1..Len(ids) : ids[i] = i
    /\ \A p \in 1..Len(lg_xml) :
          lg_xml[p].tag = "line" =>
            \A id \in 1..lg_xml[p].began :
              \E q \in 1..(p - 1) :
                lg_xml[q].tag = "serial" /\ lg_xml[q].id = id

\* C15 witness: record 1 was enqueued before a log call began and is in
\* the log ahead of that call's line; record 2 was enqueued after the call
\* began and follows the line.
C15_Witness ==
  \E p \in 1..Len(lg_xml), q \in 1..Len(lg_xml) :
    /\ p < q
    /\ lg_xml[p].tag = "line" /\ lg_xml[p].began = 1
    /\ lg_xml[q].tag = "serial" /\ lg_xml[q].id = 2

(***************************************************************************)
(* Claims about Logger.sanitise                                            *)
(***************************************************************************)

\* The positions of s that hold a code point of a category outside C.
Kept(s) == {i \in 1..Len(s) : Category(s[i])[1] # "C"}

\* The j-th smallest position of the set P.
Nth(P, j) == CHOOSE i \in P : Cardinality({k \in P : k <= i}) = j

\* C21: the characters of every serial line written by drain_log_queue are
\* sanitise of the record's msg: they hold no code point whose category
\* starts with C, they are the other code points of the msg in their
\* original order, and sanitise leaves them as they are.
C21_Sanitised ==
  \A n \in 1..Len(san_lines) :
    LET msg == san_lines[n].msg
        text == san_lines[n].text
    IN /\ \A i \in 1..Len(text) : Category(text[i])[1] # "C"
       /\ Len(text) = Cardinality(Kept(msg))
       /\ \A j \in 1..Len(text) : text[j] = msg[Nth(Kept(msg), j)]
       /\ sanitise(text) = text

\* C21 witness: a serial line was written for a msg that holds a code
\* point of category C and one of another category.
C21_Witness ==
  \E n \in 1..Len(san_lines) :
    /\ san_lines[n].text # <<>>
    /\ san_lines[n].text # san_lines[n].msg

(***************************************************************************)
(* Claims about the key map                                                *)
(***************************************************************************)

UpperLetters ==
  <<"A", "B", "C", "D", "E", "F", "G", "H", "I", "J", "K", "L", "M",
    "N", "O", "P", "Q", "R", "S", "T", "U", "V", "W", "X", "Y", "Z">>

\* The digit row of the keyboard, its shifted characters, and the scancode
\* of its i-th key, i + 1.
DigitRow == <<"1", "2", "3", "4", "5", "6", "7", "8", "9", "0">>

ShiftedDigitRow == <<"!", "@", "#", "$", "%", "^", "&", "*", "(", ")">>

\* The punctuation keys, their shifted characters and their scancodes.
PunctKeys == <<"-", "=", "[", "]", ";", "'", "U+0060", "\\", ",", ".", "/">>

ShiftedPunctKeys == <<"_", "+", "{", "}", ":", "\"", "~", "|", "<", ">", "?">>

PunctCodes == <<12, 13, 26, 27, 39, 40, 41, 43, 51, 52, 53>>

HexDigits ==
  <<"0", "1", "2", "3", "4", "5", "6", "7", "8", "9",
    "A", "B", "C", "D", "E", "F">>

\* The scancode n as QEMU's sendkey takes it: 0x and two digits.
Hex2(n) == <<"0", "x", HexDigits[(n \div 16) + 1], HexDigits[(n % 16) + 1]>>

ShiftPrefix == <<"s", "h", "i", "f", "t", "-">>

In(row, c) == \E i \in 1..Len(row) : row[i] = c

Index(row, c) == CHOOSE i \in 1..Len(row) : row[i] = c

\* The token the key map is described to give for key; digits says whether
\* the digits are keys of the table (with their raw scancodes).
ExpectedToken(key, digits) ==
  IF Len(key) # 1 THEN key
  ELSE LET c == key[1] IN
    CASE In(UpperLetters, c) ->
           ShiftPrefix \o <<LowerLetters[Index(UpperLetters, c)]>>
      [] digits /\ In(DigitRow, c) -> Hex2(Index(DigitRow, c) + 1)
      [] In(ShiftedDigitRow, c) ->
           ShiftPrefix \o Hex2(Index(ShiftedDigitRow, c) + 1)
      [] In(PunctKeys, c) -> Hex2(PunctCodes[Index(PunctKeys, c)])
      [] In(ShiftedPunctKeys, c) ->
           ShiftPrefix \o Hex2(PunctCodes[Index(ShiftedPunctKeys, c)])
      [] c = " " -> <<"s", "p", "c">>
      [] c = "\n" -> <<"r", "e", "t">>
      [] OTHER -> key

\* C22 (as stated): send_key(c) writes exactly one monitor command,
\* sendkey and the token of c: shift-<lowercase> for an uppercase letter,
\* the raw hex scancode for a digit, shift- and the hex scancode for a
\* shifted digit, the hex scancode for punctuation, spc for the space, ret
\* for the newline; a key that is not in the table is written verbatim.
C22_KeyMapTotality ==
  sk_calls > 0 =>
    sk_sent = <<SendKeyCommand(ExpectedToken(sk_key, TRUE)) \o <<"\n">>>>

\* C22 (amended): as above, but the digits are not keys of the table:
\* send_key writes sendkey and the digit itself.
C22_KeyMap ==
  sk_calls > 0 =>
    sk_sent = <<SendKeyCommand(ExpectedToken(sk_key, FALSE)) \o <<"\n">>>>

\* C22 witness: send_key("(") has written "sendkey shift-0x0A\n".
C22_Witness ==
  /\ sk_key = <<"(">>
  /\ sk_sent = <<<<"s", "e", "n", "d", "k", "e", "y", " ", "s", "h", "i", "f",
                   "t", "-", "0", "x", "0", "A", "\n">>>>

(***************************************************************************)
(* Claims about succeed and fail                                           *)
(***************************************************************************)

\* The outputs of the first k commands, concatenated in order.
RECURSIVE ConcatOut(_, _)
ConcatOut(commands, k) ==
  IF k = 0 THEN <<>> ELSE ConcatOut(commands, k - 1) \o commands[k].out

C16_SwitchesKilled ==
  main_pc = "exited" =>
    \A i \in 1..Len(switches) : switches[i].ready => switches[i].kills >= 1

\* Where word w occurs first in words.
FirstIndex(words, w) ==
  CHOOSE i \in 1..Len(words) :
    words[i] = w /\ \A j \in 1..(i - 1) : words[j] # w

\* C17: the switches are started one per distinct VLAN id of VLANS, in
\* order of first occurrence, and once a machine subprocess has been
\* spawned every switch has been started and has answered, and the env of
\* that subprocess holds QEMU_VDE_SOCKET_<id> for every id.
C17_FabricBeforeMachines ==
  main_pc # "launch" =>
    LET words == Split(environ[<<"VLANS">>]) IN
      /\ {vlan_ids[i] : i \in 1..Len(vlan_ids)}
            = {words[i] : i \in 1..Len(words)}
      /\ \A i, j \in 1..Len(vlan_ids) :
            i < j => FirstIndex(words, vlan_ids[i])
                       < FirstIndex(words, vlan_ids[j])
      /\ Len(switches) <= Len(vlan_ids)
      /\ \A i \in 1..Len(switches) : switches[i].nr = vlan_ids[i]
      /\ \A m \in DOMAIN spawn_env :
            /\ Len(switches) = Len(vlan_ids)
            /\ \A i \in 1..Len(switches) :
                  /\ switches[i].ready
                  /\ VdeSocketName(vlan_ids[i]) \in DOMAIN spawn_env[m]
                  /\ spawn_env[m][VdeSocketName(vlan_ids[i])]
                       = VdeSocketPath(vlan_ids[i])

\* C17 witness: VLANS was "2 1 2", two switches were started, for 2 and
\* then for 1, and a machine subprocess has been spawned.
C17_Witness ==
  /\ main_pc = "run_tests"
  /\ environ[<<"VLANS">>] = <<"2", " ", "1", " ", "2">>
  /\ Len(switches) = 2
  /\ switches[1].nr = <<"2">> /\ switches[2].nr = <<"1">>
  /\ spawn_env # <<>>

\* C18: the QEMU_OPTS the subprocess of start was given is the composed
\* option string followed by the QEMU_OPTS the driver was launched with,
\* whether there was one or not, and -no-reboot is in it exactly when
\* allow_reboot is false.
C18_QemuOptsComposed ==
  \A m \in DOMAIN spawn_env :
    LET seen == spawn_env[m][<<"QEMU_OPTS">>] IN
      /\ seen = qemu_options(m)
      /\ (\E i \in 1..Len(seen) : seen[i] = "-no-reboot") <=> ~allow_reboot[m]

(***************************************************************************)
(* Claims about the Logger, clean_up and the Machine flags                 *)
(***************************************************************************)

\* <nest> elements open less </nest> elements closed in the first i elements.
Depth(x, i) ==
  Cardinality({j \in 1..i : x[j] = "nest"})
    - Cardinality({j \in 1..i : x[j] = "/nest"})

\* One logfile root, opened first and closed last, every nest closed inside
\* the element it was opened in.
WellFormedXml(x) ==
  /\ Len(x) >= 2
  /\ x[1] = "logfile"
  /\ x[Len(x)] = "/logfile"
  /\ \A i \in 2..Len(x) : x[i] # "logfile"
  /\ \A i \in 1..(Len(x) - 1) : x[i] # "/logfile"
  /\ \A i \in 1..Len(x) : Depth(x, i) >= 0
  /\ Depth(x, Len(x)) = 0

\* C6: when the driver has exited with its Logger closed, whatever log /
\* nested / enqueue operations came before and whether or not a scope's body
\* raised or exited the process, the element stream has exactly one logfile
\* root, every nest opened is closed before its parent closes, and nothing
\* follows </logfile>.
C6_XmlWellFormed == (pc = "exited" /\ log_closed) => WellFormedXml(xml)

\* The signals clean_up is to send, in order, and the close after them.
ExpectedSignals ==
  LET up == SelectSeq(vm_scripts, LAMBDA m : pid[m] # Null) IN
    [i \in 1..Len(up) |-> <<"kill", up[i]>>]
      \o [i \in 1..Len(vlan_nrs) |-> <<"vde", vlan_nrs[i]>>]
      \o << <<"close">> >>

\* C7: whenever the driver terminates after the hook is registered (clean
\* completion, or an exception of the script outside any subtest), clean_up
\* runs; it sends SIGKILL to every machine whose pid is not None first, then
\* kills every VDE switch, and only then closes the Logger; a machine whose
\* pid is None is not signaled.
C7_CleanupProtocol ==
  /\ [](pc = "exited" =>
         /\ cleanups # <<>>
         /\ log_closed
         /\ signals = ExpectedSignals
         /\ \A p \in 1..Len(procs) :
              procs[p].kills = IF \E m \in Machines : pid[m] = p THEN 1 ELSE 0)
  /\ ((pc = "atexit") ~> (pc = "exited"))

\* C7 witness: the script raised outside any subtest with one machine
\* running and the other never started; the driver has exited.
C7_Witness ==
  /\ pc = "exited"
  /\ exit_code = 1
  /\ \E m \in Machines : pid[m] # Null
  /\ \E m \in Machines : pid[m] = Null
  /\ Len(signals) = 4

\* C8: after clean_up has run, every child process it knows (each machine
\* with a pid, each VDE switch) has been signaled exactly once, and any
\* further invocation of clean_up is a no-op: it raises nothing, writes
\* nothing to the log and signals nothing.
C8_CleanupIdempotent ==
  /\ (cleanups # <<>> =>
        /\ \A m \in Machines : pid[m] # Null => procs[pid[m]].kills = 1
        /\ \A i \in 1..Len(vlan_nrs) : vde_kills[i] = 1)
  /\ \A i \in 2..Len(cleanups) :
        /\ ~cleanups[i].raised
        /\ ~cleanups[i].wrote
        /\ cleanups[i].signals = 0

\* C11: start on a machine that is already booted changes nothing: no log
\* event, no new socket, subprocess or serial-drain worker, pid, booted and
\* connected as they were; and connect on a connected machine performs no
\* start and no read from the shell stream.
C11_StartConnectIdempotent ==
  [][\A m \in Machines, env \in Envs :
       (\/ booted[m] /\ script_start(m, env)
        \/ connected[m] /\ script_connect(m, env))
         => UNCHANGED <<xml, queue, log_closed, booted, connected, pid,
                        process, procs, socks, workers, banner_reads, pc,
                        exit_code, stack>>]_vars

\* C11 witness: the script has just called start on a machine that was
\* booted, and that machine still has the one subprocess and the one worker
\* of its first start.
C11_Witness ==
  /\ idle_call = "start"
  /\ \E m \in Machines : booted[m] /\ workers[m] = 1 /\ process[m] = 1
  /\ Len(procs) = 1

\* The subtest scopes the script is inside.
OpenSubtests(stk) == Cardinality({i \in 1..Len(stk) : stk[i] = "subtest"})

\* What a step may do to the counters of subtest.
SubtestStep ==
  /\ (subtest_enter /\ stack' = Append(stack, "subtest"))
       => (nr_tests' = nr_tests + 1 /\ nr_succeeded' = nr_succeeded)
  /\ subtest_exit
       => (nr_succeeded' = nr_succeeded + 1 /\ nr_tests' = nr_tests)
  /\ (nr_tests' # nr_tests) => subtest_enter
  /\ (nr_succeeded' # nr_succeeded) => subtest_exit
  /\ (OpenSubtests(stack') > OpenSubtests(stack)) => subtest_enter
  /\ (/\ pc = "script" /\ nops' = nops + 1
      /\ OpenSubtests(stack) > 0 /\ ~log_closed)
       => (pc' # "atexit" /\ exit_code' = exit_code)

UpMachines == SelectSeq(vm_scripts, LAMBDA m : booted[m] /\ connected[m])

\* C13 (as stated): when the script completes without an exception
\* escaping a subtest the driver exits with 0; when script evaluation raises
\* outside every subtest scope it exits with 1, and the final sync and the
\* summary line are not performed. (Stated for an open Logger.)
C13_ExitCodes ==
  [][(pc = "script" /\ pc' = "atexit" /\ ~log_closed) =>
       IF nops' = nops
         THEN exit_code' = 0
         ELSE exit_code' = 1 /\ final_syncs' = <<>> /\ summary' = <<>>]_vars

\* What a step may do to the exit status.
ExitStep ==
  /\ (pc = "script" /\ pc' = "atexit") =>
       IF nops' = nops
         THEN /\ exit_code' \in {0, 1}
              /\ (script_end("ok") /\ ~log_closed) => (exit_code' = 0)
              /\ (exit_code' = 0) =>
                   /\ final_syncs' = UpMachines
                   /\ (nr_tests # 0) => (summary' = <<nr_succeeded, nr_tests>>)
         ELSE exit_code' = 1 /\ final_syncs' = <<>> /\ summary' = <<>>
  /\ (pc \in {"atexit", "exited"}) => (exit_code' = exit_code)
  /\ (pc' \in {"atexit", "exited"}) => (exit_code' \in {0, 1})

\* C13 (amended): when the script completes without an exception escaping
\* a subtest and nothing raises after it (closing the scope of run_tests,
\* the final sync, the summary line), the driver exits with 0, however many
\* subtests failed, every machine that is up having been synced and the
\* summary logged when there were subtests; when one of those raises it
\* exits with 1; when script evaluation raises outside every subtest scope
\* it exits with 1 and the final sync and the summary line are not
\* performed. The exit status is settled then: clean_up does not change it.
C13_ExitCodesAmended == [][ExitStep]_vars

\* C13 witness: a subtest failed, the script completed, and the driver has
\* exited with 0 after logging "0 out of 1 tests succeeded".
C13_Witness ==
  /\ pc = "exited"
  /\ exit_code = 0
  /\ nr_succeeded < nr_tests
  /\ summary = <<0, 1>>

\* What C23 says of the machine m in the world w that shutdown or crash
\* left when it returned: the flags are cleared, and a start after it
\* boots a subprocess that was not there before.
PoweredOff(w, m) ==
  /\ w.pid[m] = Null /\ ~w.booted[m] /\ ~w.connected[m]
  /\ LET r == start(w, m, "ok") IN
       Running(r) =>
         /\ r.booted[m]
         /\ Len(r.procs) = Len(w.procs) + 1
         /\ r.process[m] = Len(r.procs)
         /\ r.pid[m] = r.process[m]
         /\ r.procs[r.process[m]].state = "running"
         /\ SubSeq(r.procs, 1, Len(w.procs)) = w.procs

\* C23: wherever the script stands, shutdown, crash and wait_for_shutdown
\* on a machine that is not booted send nothing and change nothing; on a
\* booted machine shutdown writes "poweroff\n" on the shell socket and
\* crash writes "quit\n" on the monitor socket (unless the write, or a log
\* line before it, raises); when either returns, pid is None and booted
\* and connected are False, and a start after that boots a new subprocess.
C23_ShutdownPaths ==
  InScript =>
    \A m \in Machines, env \in Envs :
      LET s == shutdown(World, m, env)
          c == crash(World, m, env)
          poweroff == Append(sent, <<m, "shell", "poweroff\n">>)
          quit == Append(sent, <<m, "monitor", "quit\n">>)
      IN IF ~booted[m]
           THEN /\ s = World
                /\ c = World
                /\ wait_for_shutdown(World, m, env) = World
           ELSE /\ (env # "io_error" => s.sent = poweroff)
                /\ ((env # "io_error" /\ ~log_closed) => c.sent = quit)
                /\ (Running(s) => (s.sent = poweroff /\ PoweredOff(s, m)))
                /\ (Running(c) => (c.sent = quit /\ PoweredOff(c, m)))

\* C23 witness: a machine was started, shut down with "poweroff\n" and
\* started again: its first subprocess is reaped, its second one runs.
C23_Witness ==
  \E m \in Machines :
    /\ sent = <<<<m, "shell", "poweroff\n">>>>
    /\ Len(procs) = 2
    /\ procs[1].m = m /\ procs[1].state = "reaped"
    /\ procs[2].m = m /\ procs[2].state = "running"
    /\ booted[m] /\ process[m] = 2

\* C24: at every moment at most one serial-drain worker of a machine is
\* alive, and exactly one while the machine is booted.
C24_OneWorker ==
  \A m \in Machines :
    /\ Cardinality(AliveWorkers(m)) <= 1
    /\ booted[m] => Cardinality(AliveWorkers(m)) = 1

\* C25: when the driver has exited, every subprocess that start spawned
\* and that was not waited for has been sent a kill by clean_up, also one
\* whose start raised before it set pid.
C25_NoOrphan ==
  pc = "exited" =>
    \A p \in 1..Len(procs) :
      procs[p].state = "running" => procs[p].kills >= 1

\* C9: whatever operations ran, and whether they returned or raised
\* part-way, connected implies booted and booted implies pid is not None.
C9_FlagInvariant ==
  \A m \in Machines :
    /\ connected[m] => booted[m]
    /\ booted[m] => pid[m] # Null

\* C9 witness: one machine is connected while another, whose subprocess was
\* spawned, is not booted (its start raised, or it was shut down).
C9_Witness ==
  /\ \E m \in Machines : connected[m] /\ booted[m]
  /\ \E m \in Machines : process[m] # Null /\ ~booted[m]

\* C10: a step that takes booted from true to false leaves pid None and
\* every socket of the machine released.
C10_ReleaseOnPowerOff ==
  [][\A m \in Machines :
       (booted[m] /\ ~booted'[m]) => (pid'[m] = Null /\ socks'[m] = {})]_vars

====
